---- MODULE Spec2Model ----
(***************************************************************************)
(* Model of iv_fluid_app.py, a Streamlit script.  The state is the value   *)
(* of every sidebar widget plus the plan rendered by the last run of the   *)
(* script.  Streamlit reruns the script on every widget change; the        *)
(* "Generate Plan" button is True only in the run caused by its click, so  *)
(* a widget change clears the rendered plan and a click renders a new one. *)
(*                                                                         *)
(* Numbers are exact rationals <<n, d>> in lowest terms with d > 0 (the    *)
(* script computes in Python floats; rounding error of the floating point  *)
(* arithmetic is not modelled).  Text that the script tests with the `in`  *)
(* operator is a sequence of one-character strings, so that a substring    *)
(* test is computed and not assumed.                                       *)
(***************************************************************************)
EXTENDS Integers, Sequences, FiniteSets

VARIABLES age, gender, weight, obese, malnourished, npo_hours, serum_na,
          serum_k, serum_hco3, blood_glucose, chf, pediatric,
          insulin_infusion, long_npo, plan

vars == <<age, gender, weight, obese, malnourished, npo_hours, serum_na,
          serum_k, serum_hco3, blood_glucose, chf, pediatric,
          insulin_infusion, long_npo, plan>>

inputs == <<age, gender, weight, obese, malnourished, npo_hours, serum_na,
            serum_k, serum_hco3, blood_glucose, chf, pediatric,
            insulin_infusion, long_npo>>

----------------------------------------------------------------------------
(* Bounds of the model *)

MaxWeightSteps == 2
MaxNpoHours == 1

----------------------------------------------------------------------------
(* Rational arithmetic standing for Python's float arithmetic *)

Abs(x) == IF x < 0 THEN -x ELSE x

RECURSIVE GCD(_, _)
GCD(a, b) == IF b = 0 THEN a ELSE GCD(b, a % b)

Rat(n, d) == LET g == GCD(Abs(n), d) IN <<n \div g, d \div g>>

Num(n) == <<n, 1>>

Add(a, b) == Rat(a[1] * b[2] + b[1] * a[2], a[2] * b[2])

Sub(a, b) == Rat(a[1] * b[2] - b[1] * a[2], a[2] * b[2])

Mul(a, b) == Rat(a[1] * b[1], a[2] * b[2])

Less(a, b) == a[1] * b[2] < b[1] * a[2]

Leq(a, b) == a[1] * b[2] <= b[1] * a[2]

\* Python's max(a, b): b only when it is strictly greater than a.
Max(a, b) == IF Less(a, b) THEN b ELSE a

\* Python's min(a, b): b only when it is strictly smaller than a.
Min(a, b) == IF Less(b, a) THEN b ELSE a

----------------------------------------------------------------------------
(* Text *)

\* Python's `sub in s` on str.
Contains(sub, s) ==
    \E i \in 0..(Len(s) - Len(sub)) : SubSeq(s, i + 1, i + Len(sub)) = sub

DigitChar(d) == <<"0", "1", "2", "3", "4", "5", "6", "7", "8", "9">>[d + 1]

RECURSIVE Digits(_)
Digits(n) == IF n < 10 THEN <<DigitChar(n)>>
             ELSE Append(Digits(n \div 10), DigitChar(n % 10))

\* Python's round-half-to-even of a non-negative number, as used by the
\* format specification ".0f".
RoundHalfEven(r) ==
    LET q   == r[1] \div r[2]
        rem == r[1] % r[2]
    IN  IF 2 * rem < r[2] THEN q
        ELSE IF 2 * rem > r[2] THEN q + 1
        ELSE IF q % 2 = 0 THEN q ELSE q + 1

\* f"{r:.0f}" for r >= 0.
Format0f(r) == Digits(RoundHalfEven(r))

LactatedRingers == <<"L","a","c","t","a","t","e","d"," ","R","i","n","g","e","r","'","s">>
NormalSaline == <<"0",".","9","%"," ","N","a","C","l">>
D5NS == <<"D","5","N","S">>
D5LR == <<"D","5","L","R">>
AddKCl == <<"A","d","d"," ","K","C","l"," ","2","0"," ","m","E","q"," ","p","e","r"," ","L">>
NoExtraKCl == <<"N","o"," ","e","x","t","r","a"," ","K","C","l">>
InfusionAt == <<" ","i","n","f","u","s","i","o","n"," ","a","t"," ">>
ViaPump == <<" ","m","L","/","h","r"," ","f","o","r"," ","2","4","h"," ","v","i","a"," ","p","u","m","p">>
ContainsDextrose == <<" ","(","c","o","n","t","a","i","n","s"," ","d","e","x","t","r","o","s","e",")">>
OrderKCl == <<";"," ","a","d","d"," ","2","0"," ","m","E","q"," ","K","C","l"," ","p","e","r"," ","L">>
KClMarker == <<"K","C","l">>
D5Marker == <<"D","5">>
LRMarker == <<"L","R">>

----------------------------------------------------------------------------
(* Helper functions of the script *)

estimate_tbw(w, g, ob, mal) ==
    LET base_fraction == IF g = "Male" THEN Rat(6, 10) ELSE Rat(5, 10)
        tbw0 == Mul(base_fraction, w)
        tbw1 == IF ob THEN Mul(tbw0, Rat(85, 100)) ELSE tbw0
        tbw2 == IF mal THEN Mul(tbw1, Rat(110, 100)) ELSE tbw1
    IN  tbw2

\* Variant: the second tier is not clipped to its width of 10 kg.
calculate_maintenance_unclipped(w) ==
    LET m1 == Mul(Min(w, Num(10)), Num(4))
        m2 == Mul(Max(Sub(w, Num(10)), Num(0)), Num(2))
        m3 == Mul(Max(Sub(w, Num(20)), Num(0)), Num(1))
        rate_h == Add(Add(m1, m2), m3)
    IN  <<rate_h, Mul(rate_h, Num(24))>>

calculate_maintenance(w) ==
    LET m1 == Mul(Min(w, Num(10)), Num(4))
        m2 == Mul(Min(Max(Sub(w, Num(10)), Num(0)), Num(10)), Num(2))
        m3 == Mul(Max(Sub(w, Num(20)), Num(0)), Num(1))
        rate_h == Add(Add(m1, m2), m3)
    IN  <<rate_h, Mul(rate_h, Num(24))>>

calculate_deficit(rate_h, npo) == Mul(rate_h, npo)

\* Variant: the potassium deficit is not floored at zero.
calculate_electrolyte_deficits_nofloor(tbw, na, k, hco3) ==
    LET na_def == Max(Num(0), Mul(tbw, Sub(Num(140), na)))
        k_def == Mul(Mul(Rat(4, 10), weight), Sub(Num(4), k))
        hco3_def == Max(Num(0), Mul(Mul(Rat(3, 10), weight), Sub(Num(24), hco3)))
    IN  <<na_def, k_def, hco3_def>>

\* `weight` is not a parameter of the function: it is the module-level
\* variable assigned by the sidebar widget.
calculate_electrolyte_deficits(tbw, na, k, hco3) ==
    LET na_def == Max(Num(0), Mul(tbw, Sub(Num(140), na)))
        k_def == Max(Num(0), Mul(Mul(Rat(4, 10), weight), Sub(Num(4), k)))
        hco3_def == Max(Num(0), Mul(Mul(Rat(3, 10), weight), Sub(Num(24), hco3)))
    IN  <<na_def, k_def, hco3_def>>

fluid_composition ==
    [f \in {LactatedRingers, NormalSaline, D5NS, D5LR} |->
        IF f = LactatedRingers
          THEN [c \in {"Na", "K", "Cl", "HCO3_pre"} |->
                  CASE c = "Na" -> 130 [] c = "K" -> 4 [] c = "Cl" -> 109
                    [] c = "HCO3_pre" -> 28]
        ELSE IF f = NormalSaline
          THEN [c \in {"Na", "Cl"} |-> 154]
        ELSE IF f = D5NS
          THEN [c \in {"Na", "Cl", "Glucose_g"} |->
                  IF c = "Glucose_g" THEN 50 ELSE 154]
        ELSE [c \in {"Na", "K", "Cl", "HCO3_pre", "Glucose_g"} |->
                  CASE c = "Na" -> 130 [] c = "K" -> 4 [] c = "Cl" -> 109
                    [] c = "HCO3_pre" -> 28 [] c = "Glucose_g" -> 50]]

----------------------------------------------------------------------------
(* The body of `if st.sidebar.button("Generate Plan")` *)

\* Variant: the hyponatremia threshold is inclusive.
base_fluid_inclusive(na, deficit) ==
    IF Leq(na, Num(130)) \/ Less(Num(0), deficit)
      THEN NormalSaline
      ELSE LactatedRingers

\* Adult base fluid.
base_fluid(na, deficit) ==
    IF Less(na, Num(130)) \/ Less(Num(0), deficit)
      THEN NormalSaline
      ELSE LactatedRingers

\* Variant: dextrose is added by prefixing the marker to the fluid name.
escalate_prefix(fluid, lnpo, ins, mal) ==
    IF (lnpo \/ ins \/ mal) /\ ~Contains(D5Marker, fluid)
      THEN D5Marker \o fluid
      ELSE fluid

\* Dextrose escalation of the adult base fluid.
escalate(fluid, lnpo, ins, mal) ==
    IF (lnpo \/ ins \/ mal) /\ ~Contains(D5Marker, fluid)
      THEN IF Contains(LRMarker, fluid) THEN D5LR ELSE D5NS
      ELSE fluid

\* Variant: the two pediatric fluids are swapped.
select_fluid_swapped(ped, lnpo, ins, mal, na, deficit) ==
    IF ped
      THEN IF lnpo THEN D5NS ELSE D5LR
      ELSE escalate(base_fluid(na, deficit), lnpo, ins, mal)

select_fluid(ped, lnpo, ins, mal, na, deficit) ==
    IF ped
      THEN IF lnpo THEN D5LR ELSE D5NS
      ELSE escalate(base_fluid(na, deficit), lnpo, ins, mal)

k_supplement_text(k) == IF Less(k, Rat(35, 10)) THEN AddKCl ELSE NoExtraKCl

IntakeKeys == {"Na", "K", "Cl", "HCO3_pre", "Glucose_g"}

\* Variant: the key filter of the projection misses Glucose_g.
maintenance_intake_noglucose(fluid, maint_24) ==
    LET comp == fluid_composition[fluid]
    IN  [key \in (DOMAIN comp) \cap (IntakeKeys \ {"Glucose_g"}) |->
            Mul(Num(comp[key]), Mul(maint_24, Rat(1, 1000)))]

maintenance_intake(fluid, maint_24) ==
    LET comp == fluid_composition[fluid]
    IN  [key \in (DOMAIN comp) \cap IntakeKeys |->
            Mul(Num(comp[key]), Mul(maint_24, Rat(1, 1000)))]

order_text(fluid, rate_h, k_supplement) ==
    LET o1 == fluid \o InfusionAt \o Format0f(rate_h) \o ViaPump
        o2 == IF Contains(D5Marker, fluid) THEN o1 \o ContainsDextrose ELSE o1
        o3 == IF Contains(KClMarker, k_supplement) THEN o2 \o OrderKCl ELSE o2
    IN  o3

\* Variant: the rate is halved but the 24h volume is not recomputed.
restrict_stale(rm, c) ==
    IF c THEN <<Mul(rm[1], Rat(5, 10)), rm[2]>>
         ELSE rm

\* Final hourly rate and 24h maintenance volume after the CHF restriction.
restrict(rm, c) ==
    IF c THEN <<Mul(rm[1], Rat(5, 10)), Mul(Mul(rm[1], Rat(5, 10)), Num(24))>>
         ELSE rm

generate_plan ==
    LET tbw == estimate_tbw(weight, gender, obese, malnourished)
        rm == restrict(calculate_maintenance(weight), chf)
        rate_h == rm[1]
        maint_24 == rm[2]
        deficit == calculate_deficit(rate_h, npo_hours)
        total_24 == Add(maint_24, deficit)
        defs == calculate_electrolyte_deficits(tbw, serum_na, serum_k, serum_hco3)
        fluid == select_fluid(pediatric, long_npo, insulin_infusion,
                              malnourished, serum_na, deficit)
        k_supplement == k_supplement_text(serum_k)
        \* fluid_composition[fluid] raises KeyError for an unknown name;
        \* the script stops there, before the intake table and the order.
        known == fluid \in DOMAIN fluid_composition
    IN  [tbw |-> tbw, rate_h |-> rate_h, maint_24 |-> maint_24,
         deficit |-> deficit, total_24 |-> total_24,
         na_def |-> defs[1], k_def |-> defs[2], hco3_def |-> defs[3],
         fluid |-> fluid, k_supplement |-> k_supplement,
         error |-> IF known THEN "none" ELSE "KeyError",
         intake |-> IF known THEN maintenance_intake(fluid, maint_24) ELSE <<>>,
         order |-> IF known THEN order_text(fluid, rate_h, k_supplement)
                            ELSE <<>>]

----------------------------------------------------------------------------
(* Values the sidebar widgets can take *)

Ages == {0, 25}
Genders == {"Male", "Female"}
Weights == {Num(5 * i) : i \in 0..MaxWeightSteps} \cup {Rat(21, 2), Num(20), Num(110)}
NpoHours == {Num(h) : h \in 0..MaxNpoHours} \cup {Num(12)}
SerumNas == {Num(125), Num(130), Num(135), Num(145)}
SerumKs == {Num(3), Rat(35, 10), Num(4), Num(5)}
SerumHco3s == {Num(22), Num(24), Num(26)}
BloodGlucoses == {Num(100), Num(250)}

----------------------------------------------------------------------------
(* State machine *)

\* Widget defaults: the first run of the script, button not clicked.
Init ==
    /\ age = 25
    /\ gender = "Male"
    /\ weight = Num(110)
    /\ obese = FALSE
    /\ malnourished = FALSE
    /\ npo_hours = Num(12)
    /\ serum_na = Num(130)
    /\ serum_k = Num(5)
    /\ serum_hco3 = Num(22)
    /\ blood_glucose = Num(100)
    /\ chf = FALSE
    /\ pediatric = FALSE
    /\ insulin_infusion = FALSE
    /\ long_npo = FALSE
    /\ plan = <<>>

SetAge ==
    /\ \E v \in Ages \ {age} : age' = v
    /\ plan' = <<>>
    /\ UNCHANGED <<gender, weight, obese, malnourished, npo_hours, serum_na,
                   serum_k, serum_hco3, blood_glucose, chf, pediatric,
                   insulin_infusion, long_npo>>

SetGender ==
    /\ \E v \in Genders \ {gender} : gender' = v
    /\ plan' = <<>>
    /\ UNCHANGED <<age, weight, obese, malnourished, npo_hours, serum_na,
                   serum_k, serum_hco3, blood_glucose, chf, pediatric,
                   insulin_infusion, long_npo>>

SetWeight ==
    /\ \E v \in Weights \ {weight} : /\ Leq(Num(0), v)
                                     /\ weight' = v
    /\ plan' = <<>>
    /\ UNCHANGED <<age, gender, obese, malnourished, npo_hours, serum_na,
                   serum_k, serum_hco3, blood_glucose, chf, pediatric,
                   insulin_infusion, long_npo>>

SetObese ==
    /\ obese' = ~obese
    /\ plan' = <<>>
    /\ UNCHANGED <<age, gender, weight, malnourished, npo_hours, serum_na,
                   serum_k, serum_hco3, blood_glucose, chf, pediatric,
                   insulin_infusion, long_npo>>

SetMalnourished ==
    /\ malnourished' = ~malnourished
    /\ plan' = <<>>
    /\ UNCHANGED <<age, gender, weight, obese, npo_hours, serum_na,
                   serum_k, serum_hco3, blood_glucose, chf, pediatric,
                   insulin_infusion, long_npo>>

SetNpoHours ==
    /\ \E v \in NpoHours \ {npo_hours} : /\ Leq(Num(0), v)
                                         /\ npo_hours' = v
    /\ plan' = <<>>
    /\ UNCHANGED <<age, gender, weight, obese, malnourished, serum_na,
                   serum_k, serum_hco3, blood_glucose, chf, pediatric,
                   insulin_infusion, long_npo>>

SetSerumNa ==
    /\ \E v \in SerumNas \ {serum_na} : serum_na' = v
    /\ plan' = <<>>
    /\ UNCHANGED <<age, gender, weight, obese, malnourished, npo_hours,
                   serum_k, serum_hco3, blood_glucose, chf, pediatric,
                   insulin_infusion, long_npo>>

SetSerumK ==
    /\ \E v \in SerumKs \ {serum_k} : serum_k' = v
    /\ plan' = <<>>
    /\ UNCHANGED <<age, gender, weight, obese, malnourished, npo_hours,
                   serum_na, serum_hco3, blood_glucose, chf, pediatric,
                   insulin_infusion, long_npo>>

SetSerumHco3 ==
    /\ \E v \in SerumHco3s \ {serum_hco3} : serum_hco3' = v
    /\ plan' = <<>>
    /\ UNCHANGED <<age, gender, weight, obese, malnourished, npo_hours,
                   serum_na, serum_k, blood_glucose, chf, pediatric,
                   insulin_infusion, long_npo>>

SetBloodGlucose ==
    /\ \E v \in BloodGlucoses \ {blood_glucose} : blood_glucose' = v
    /\ plan' = <<>>
    /\ UNCHANGED <<age, gender, weight, obese, malnourished, npo_hours,
                   serum_na, serum_k, serum_hco3, chf, pediatric,
                   insulin_infusion, long_npo>>

SetChf ==
    /\ chf' = ~chf
    /\ plan' = <<>>
    /\ UNCHANGED <<age, gender, weight, obese, malnourished, npo_hours,
                   serum_na, serum_k, serum_hco3, blood_glucose, pediatric,
                   insulin_infusion, long_npo>>

SetPediatric ==
    /\ pediatric' = ~pediatric
    /\ plan' = <<>>
    /\ UNCHANGED <<age, gender, weight, obese, malnourished, npo_hours,
                   serum_na, serum_k, serum_hco3, blood_glucose, chf,
                   insulin_infusion, long_npo>>

SetInsulinInfusion ==
    /\ insulin_infusion' = ~insulin_infusion
    /\ plan' = <<>>
    /\ UNCHANGED <<age, gender, weight, obese, malnourished, npo_hours,
                   serum_na, serum_k, serum_hco3, blood_glucose, chf,
                   pediatric, long_npo>>

SetLongNpo ==
    /\ long_npo' = ~long_npo
    /\ plan' = <<>>
    /\ UNCHANGED <<age, gender, weight, obese, malnourished, npo_hours,
                   serum_na, serum_k, serum_hco3, blood_glucose, chf,
                   pediatric, insulin_infusion>>

\* Click on "Generate Plan": the script reruns with the button True.
GeneratePlan ==
    /\ plan' = <<generate_plan>>
    /\ UNCHANGED inputs

Next ==
    \/ SetAge
    \/ SetGender
    \/ SetWeight
    \/ SetObese
    \/ SetMalnourished
    \/ SetNpoHours
    \/ SetSerumNa
    \/ SetSerumK
    \/ SetSerumHco3
    \/ SetBloodGlucose
    \/ SetChf
    \/ SetPediatric
    \/ SetInsulinInfusion
    \/ SetLongNpo
    \/ GeneratePlan

Spec == Init /\ [][Next]_vars

----------------------------------------------------------------------------
(* Properties *)

Shown == plan /= <<>>

P == plan[1]

Positive(r) == r[1] > 0

FloorZero(r) == IF r[1] > 0 THEN r ELSE <<0, 1>>

\* The 4-2-1 rule written piecewise.
Tier421(w) ==
    IF Leq(w, <<10, 1>>) THEN Mul(<<4, 1>>, w)
    ELSE IF Leq(w, <<20, 1>>) THEN Add(<<40, 1>>, Mul(<<2, 1>>, Sub(w, <<10, 1>>)))
    ELSE Add(<<60, 1>>, Sub(w, <<20, 1>>))

FinalRate == IF chf THEN Mul(Tier421(weight), <<1, 2>>) ELSE Tier421(weight)

\* Electrolyte profile of a fluid: its composition without the dextrose.
Profile(f) ==
    [c \in (DOMAIN fluid_composition[f]) \ {"Glucose_g"} |->
        fluid_composition[f][c]]

Escalating == long_npo \/ insulin_infusion \/ malnourished

\* C1: for an adult with longNpo, insulinInfusion or malnourished set, the
\* escalation turns a base of Lactated Ringer's into D5LR and a base of
\* 0.9% NaCl into D5NS, so the Na, K, Cl and HCO3_pre concentrations of
\* the final fluid equal those of the base fluid.  Stated for positive
\* weights, the inputs the data model admits.
C1_EscalationKeepsProfile ==
    (Shown /\ ~pediatric /\ Escalating /\ Positive(weight)) =>
        LET base == base_fluid(serum_na, P.deficit)
        IN  /\ (base = LactatedRingers => P.fluid = D5LR)
            /\ (base = NormalSaline => P.fluid = D5NS)
            /\ P.fluid \in DOMAIN fluid_composition
            /\ Profile(P.fluid) = Profile(base)

\* C2: when the input is invalid (weight <= 0, negative age or negative
\* NPO hours) no plan is produced; a plan exists only for valid input.
C2_InvalidInputNoPlan ==
    Shown => /\ Positive(weight)
             /\ age >= 0
             /\ npo_hours[1] >= 0

\* C3: for an adult with no escalation flag the fluid is 0.9% NaCl exactly
\* when serumNa < 130 or the NPO deficit is > 0, and Lactated Ringer's
\* otherwise.
C3_AdultBaseRule ==
    (Shown /\ ~pediatric /\ ~Escalating) =>
        IF serum_na[1] < 130 * serum_na[2] \/ Positive(P.deficit)
          THEN P.fluid = NormalSaline
          ELSE P.fluid = LactatedRingers

C3_Witness ==
    /\ Shown /\ ~pediatric /\ ~Escalating
    /\ serum_na = <<130, 1>>
    /\ weight = <<110, 1>>
    /\ npo_hours = <<0, 1>>
    /\ P.deficit = <<0, 1>>
    /\ P.fluid = LactatedRingers

\* C4: a pediatric patient gets D5LR if longNpo is set and D5NS otherwise,
\* whatever the other inputs are, and that fluid's composition contains
\* Glucose_g.
C4_PediatricDextrose ==
    (Shown /\ pediatric) =>
        /\ (long_npo => P.fluid = D5LR)
        /\ (~long_npo => P.fluid = D5NS)
        /\ "Glucose_g" \in DOMAIN fluid_composition[P.fluid]

C4_Witness ==
    /\ Shown /\ pediatric /\ ~long_npo /\ insulin_infusion /\ ~malnourished
    /\ serum_na = <<135, 1>>
    /\ P.deficit = <<0, 1>>
    /\ age = 25
    /\ P.fluid = D5NS

\* C5: the final hourly rate is the 4-2-1 rate, halved when chf is set;
\* the 24h maintenance volume is the final rate * 24, the deficit is the
\* final rate * npoHours and the total is their sum.
C5_ChfBeforeDeficit ==
    Shown =>
        /\ P.rate_h = FinalRate
        /\ P.maint_24 = Mul(FinalRate, <<24, 1>>)
        /\ P.deficit = Mul(FinalRate, npo_hours)
        /\ P.total_24 = Add(Mul(FinalRate, <<24, 1>>), Mul(FinalRate, npo_hours))

C5_Witness ==
    /\ Shown /\ chf
    /\ weight = <<110, 1>>
    /\ npo_hours = <<12, 1>>
    /\ P.rate_h = <<75, 1>>
    /\ P.maint_24 = <<1800, 1>>
    /\ P.deficit = <<900, 1>>
    /\ P.total_24 = <<2700, 1>>

\* C6: calculate_maintenance returns 4w for 0 < w <= 10, 40 + 2(w - 10)
\* for 10 < w <= 20 and 60 + (w - 20) for w > 20, and as second value 24
\* times that rate.
C6_Maintenance421 ==
    Positive(weight) =>
        /\ calculate_maintenance(weight)[1] = Tier421(weight)
        /\ calculate_maintenance(weight)[2] = Mul(<<24, 1>>, Tier421(weight))
        /\ (Shown /\ ~chf => /\ P.rate_h = Tier421(weight)
                             /\ P.maint_24 = Mul(<<24, 1>>, Tier421(weight)))

C6_Witness ==
    /\ Shown /\ ~chf
    /\ weight = <<110, 1>>
    /\ P.rate_h = <<150, 1>>
    /\ P.maint_24 = <<3600, 1>>

\* C7: the three electrolyte deficits are never negative, each is its own
\* formula floored at zero over the patient weight and the TBW of that
\* weight, and a lab value at or above its target gives a deficit of zero.
C7_DeficitsFloored ==
    Shown =>
        /\ P.na_def[1] >= 0 /\ P.k_def[1] >= 0 /\ P.hco3_def[1] >= 0
        /\ P.tbw = estimate_tbw(weight, gender, obese, malnourished)
        /\ P.na_def = FloorZero(Mul(P.tbw, Sub(<<140, 1>>, serum_na)))
        /\ P.k_def = FloorZero(Mul(Mul(<<2, 5>>, weight), Sub(<<4, 1>>, serum_k)))
        /\ P.hco3_def =
              FloorZero(Mul(Mul(<<3, 10>>, weight), Sub(<<24, 1>>, serum_hco3)))
        /\ (serum_na[1] > 140 * serum_na[2] => P.na_def = <<0, 1>>)
        /\ (serum_k[1] >= 4 * serum_k[2] => P.k_def = <<0, 1>>)
        /\ (serum_hco3[1] >= 24 * serum_hco3[2] => P.hco3_def = <<0, 1>>)

C7_Witness ==
    /\ Shown
    /\ weight = <<110, 1>>
    /\ serum_na = <<145, 1>> /\ serum_k = <<5, 1>> /\ serum_hco3 = <<26, 1>>
    /\ P.na_def = <<0, 1>> /\ P.k_def = <<0, 1>> /\ P.hco3_def = <<0, 1>>

\* C8: potassium supplementation is recommended exactly when
\* serumK < 3.5, whatever the other inputs and the selected fluid are, and
\* the order text contains the KCl addition exactly when supplementation
\* is recommended.
C8_KClOnlyWhenLow ==
    Shown =>
        /\ (P.k_supplement = AddKCl <=> 2 * serum_k[1] < 7 * serum_k[2])
        /\ (P.k_supplement /= AddKCl => P.k_supplement = NoExtraKCl)
        /\ (Contains(OrderKCl, P.order) <=> P.k_supplement = AddKCl)

\* C9: the maintenance intake has exactly the keys of the selected fluid's
\* composition record and each value is the concentration per liter times
\* the post-CHF 24h maintenance volume / 1000.
C9_IntakeProjection ==
    Shown =>
        /\ DOMAIN P.intake = DOMAIN fluid_composition[P.fluid]
        /\ (P.fluid = NormalSaline => DOMAIN P.intake = {"Na", "Cl"})
        /\ (P.fluid = LactatedRingers =>
               DOMAIN P.intake = {"Na", "K", "Cl", "HCO3_pre"})
        /\ (P.fluid = D5NS => DOMAIN P.intake = {"Na", "Cl", "Glucose_g"})
        /\ (P.fluid = D5LR =>
               DOMAIN P.intake = {"Na", "K", "Cl", "HCO3_pre", "Glucose_g"})
        /\ \A key \in DOMAIN P.intake :
               P.intake[key] =
                   Mul(<<fluid_composition[P.fluid][key], 1>>,
                       Mul(Mul(FinalRate, <<24, 1>>), <<1, 1000>>))

C9_Witness ==
    /\ Shown /\ chf /\ pediatric /\ long_npo
    /\ weight = <<110, 1>>
    /\ P.fluid = D5LR
    /\ DOMAIN P.intake = {"Na", "K", "Cl", "HCO3_pre", "Glucose_g"}
    /\ P.intake["Glucose_g"] = <<90, 1>>
    /\ P.intake["Na"] = <<234, 1>>

\* C10: for every input the selected fluid is one of the four keys of the
\* composition table, so the composition lookup of the intake projection
\* never fails.
C10_FluidInTable ==
    Shown =>
        /\ P.fluid \in {LactatedRingers, NormalSaline, D5NS, D5LR}
        /\ P.fluid \in DOMAIN fluid_composition
        /\ P.error = "none"

C10_Witness ==
    /\ Shown /\ ~pediatric /\ malnourished
    /\ serum_na = <<135, 1>>
    /\ P.deficit = <<0, 1>>
    /\ P.fluid \in DOMAIN fluid_composition
    /\ P.error = "none"

====
